---- MODULE Spec2Model ----
(***************************************************************************)
(* NormalizedResource (src/src/normalized_resource.rs): a resource builder *)
(* that registers one compiled service under a pattern and under its       *)
(* trailing-slash complement.                                              *)
(*                                                                         *)
(* Strings are sequences of characters.  Option<T> is a sequence of length *)
(* at most one: None is << >>, Some(x) is <<x>>.  Rc<T> is an index into a *)
(* heap (slots, exts, rcs), so that sharing and copying differ.            *)
(***************************************************************************)
EXTENDS Naturals, Sequences, FiniteSets, TLC

VARIABLES res, slots, exts, rcs, config, registry, services, phase, last, asked,
          log

vars == <<res, slots, exts, rcs, config, registry, services, phase, last, asked,
          log>>

(* ------------------------------ bounds --------------------------------- *)
MaxLen == 4
MaxRoutes == 2
MaxWraps == 2
MaxGuards == 1
MaxHits == 2

(* ------------------------------ inputs --------------------------------- *)
None == << >>
Some(x) == <<x>>

Chars == {"/", "a"}

RECURSIVE StringsOfLen(_)
StringsOfLen(n) ==
    IF n = 0 THEN { << >> }
    ELSE { Append(s, c) : s \in StringsOfLen(n - 1), c \in Chars }

Patterns == UNION { StringsOfLen(n) : n \in 0..MaxLen }

TestPaths == { <<"/", "a">> }

Methods == {"GET", "PUT", "DELETE"}
MethodGuards == {"GET", "PUT"}
ResourceGuards == {"GET"}
Names == {"test"}
MwKinds == { [hdr |-> "content-type", val |-> "0001"] }
\* a service to construct: the status it answers with, and whether its
\* construction fails
DefaultServices == { [status |-> 400, fails |-> FALSE] }
FailingDefaults == { [status |-> 400, fails |-> TRUE] }
AppDefaults == { None, Some([status |-> 400, fails |-> FALSE, on_init_err |-> "none"]) }

(* -------------------------- string functions --------------------------- *)
EndsWithSlash(s) == Len(s) > 0 /\ s[Len(s)] = "/"

StartsWithSlash(s) == Len(s) > 0 /\ s[1] = "/"

\* length of the run of '/' that starts at position i of s
RECURSIVE SlashRun(_, _)
SlashRun(s, i) ==
    IF i > Len(s) \/ s[i] # "/" THEN 0 ELSE 1 + SlashRun(s, i + 1)

\* Regex "//+" .replace_all(s, "/"): leftmost, greedy, non-overlapping matches
RECURSIVE ReplaceAllFrom(_, _)
ReplaceAllFrom(s, i) ==
    IF i > Len(s) THEN << >>
    ELSE LET n == SlashRun(s, i)
         IN  IF n >= 2 THEN <<"/">> \o ReplaceAllFrom(s, i + n)
             ELSE <<s[i]>> \o ReplaceAllFrom(s, i + 1)

\* the regex "//" in place of "//+": slashes merged two at a time
RECURSIVE ReplacePairsFrom(_, _)
ReplacePairsFrom(s, i) ==
    IF i > Len(s) THEN << >>
    ELSE IF s[i] = "/" /\ i < Len(s) /\ s[i + 1] = "/"
    THEN <<"/">> \o ReplacePairsFrom(s, i + 2)
    ELSE <<s[i]>> \o ReplacePairsFrom(s, i + 1)

MergeSlashPairs(s) == ReplacePairsFrom(s, 1)

merge_slash(s) == ReplaceAllFrom(s, 1)

\* str::trim_end_matches("/"): strips the pattern from the end repeatedly
RECURSIVE trim_end_matches(_)
trim_end_matches(s) ==
    IF EndsWithSlash(s) THEN trim_end_matches(SubSeq(s, 1, Len(s) - 1)) ELSE s

\* crate::dev::insert_slash: a non-empty path gets a leading '/'
insert_slash(path) ==
    IF Len(path) > 0 /\ ~StartsWithSlash(path) THEN <<"/">> \o path ELSE path

(* ------------------------------- guards -------------------------------- *)
\* guard::Get(), guard::Put(): a method guard accepts a request of its method
Check(g, req) == req.method = g

\* every guard of the sequence accepts
CheckAll(gs, req) == \A i \in 1..Len(gs) : Check(gs[i], req)

(* ------------------------------ Extensions ----------------------------- *)
NewExtensions == [t \in {} |-> 0]

\* Extensions::insert: one value per type, the last write wins
Insert(ext, t, v) == [x \in (DOMAIN ext) \cup {t} |-> IF x = t THEN v ELSE ext[x]]

(* ------------------------------- builder ------------------------------- *)
\* variant: the builder starts with a not-found default, as App does
NewWithDefault(path) ==
    [ endpoint    |-> [layers |-> << >>, factory |-> 1],
      rdef        |-> path,
      name        |-> None,
      routes      |-> << >>,
      data        |-> None,
      guards      |-> << >>,
      default     |-> Some([status |-> 404, fails |-> FALSE, on_init_err |-> "log"]),
      factory_ref |-> 1 ]

\* NormalizedResource::new: the builder and the empty deferred factory slot;
\* the endpoint is the bare ResourceEndpoint holding the slot
New(path) ==
    [ endpoint    |-> [layers |-> << >>, factory |-> 1],
      rdef        |-> path,
      name        |-> None,
      routes      |-> << >>,
      data        |-> None,
      guards      |-> << >>,
      default     |-> None,
      factory_ref |-> 1 ]

NewSlots == << None >>

\* AppService as register() sees it
NewConfig(root, dflt) ==
    [root |-> root, default |-> dflt, service_data |-> [t \in {} |-> 0]]

\* history: what the caller passed to the builder, in call order
NothingAsked ==
    [routes |-> << >>, wraps |-> << >>, default |-> None,
     data |-> [t \in {} |-> 0], guards |-> << >>, name |-> None]

InitWith(paths, roots) ==
    /\ \E path \in paths : res = New(path)
    /\ slots = NewSlots
    /\ exts = << >>
    /\ rcs = << >>
    /\ \E root \in roots, d \in AppDefaults : config = NewConfig(root, d)
    /\ registry = << >>
    /\ services = << >>
    /\ phase = "building"
    /\ last = None
    /\ asked = NothingAsked
    /\ log = << >>

Init == InitWith(TestPaths, {TRUE})

Building == phase = "building"

Frame == UNCHANGED <<slots, exts, rcs, config, registry, services, phase, last, log>>

Quiet == UNCHANGED asked

\* name(): set the resource name
name ==
    /\ Building
    /\ \E n \in Names :
          /\ res' = [res EXCEPT !.name = Some(n)]
          /\ asked' = [asked EXCEPT !.name = Some(n)]
    /\ Frame

\* guard(): push a resource-level guard
guard ==
    /\ Building
    /\ Len(res.guards) < MaxGuards
    /\ \E g \in ResourceGuards :
          /\ res' = [res EXCEPT !.guards = Append(@, g)]
          /\ asked' = [asked EXCEPT !.guards = Append(@, g)]
    /\ Frame

\* a Route value: its guards and its handler (handlers are numbered as the
\* caller creates them, so that two routes never share a handler)
NewRoute(gs, h) == [guards |-> gs, handler |-> h]

\* variant: the route is inserted at the head of the list
PushRouteFront(r, rt) == [r EXCEPT !.routes = <<rt>> \o @]

PushRoute(r, rt) == [r EXCEPT !.routes = Append(@, rt)]

\* route(web::get().to(h)) / route(web::put().to(h))
route ==
    /\ Building
    /\ Len(asked.routes) < MaxRoutes
    /\ \E g \in MethodGuards :
          LET rt == NewRoute(<<g>>, Len(asked.routes) + 1)
          IN  /\ res' = PushRoute(res, rt)
              /\ asked' = [asked EXCEPT !.routes = Append(@, rt)]
    /\ Frame

\* to(h): Route::new().to(h), a route without guards
to ==
    /\ Building
    /\ Len(asked.routes) < MaxRoutes
    /\ LET rt == NewRoute(<< >>, Len(asked.routes) + 1)
       IN  /\ res' = PushRoute(res, rt)
           /\ asked' = [asked EXCEPT !.routes = Append(@, rt)]
    /\ Frame

\* to_async(h): Route::new().to_async(h)
to_async ==
    /\ Building
    /\ Len(asked.routes) < MaxRoutes
    /\ LET rt == NewRoute(<< >>, Len(asked.routes) + 1)
       IN  /\ res' = PushRoute(res, rt)
           /\ asked' = [asked EXCEPT !.routes = Append(@, rt)]
    /\ Frame

\* data(v): allocate the map on first use, insert by type
SetData(r, t, v) ==
    LET ext == IF r.data = None THEN NewExtensions ELSE r.data[1]
    IN  [r EXCEPT !.data = Some(Insert(ext, t, v))]

data ==
    /\ Building
    /\ res' = SetData(res, "Counter", 0)
    /\ asked' = [asked EXCEPT !.data = Insert(@, "Counter", 0)]
    /\ Frame

\* data(v) for a type that the enclosing scope registers too
data_limit ==
    /\ Building
    /\ res' = SetData(res, "Limit", "resource")
    /\ asked' = [asked EXCEPT !.data = Insert(@, "Limit", "resource")]
    /\ Frame

\* variant: the builder is rebuilt around the old endpoint
WrapKeepEndpoint(r, mw) == r

\* variant: the middleware is applied inside the existing layers
WrapInner(r, mw) == [r EXCEPT !.endpoint.layers = Append(@, mw)]

\* variant: the returned builder is made afresh around the new front-end
WrapFresh(r, mw) ==
    [New(r.rdef) EXCEPT !.endpoint.layers = <<mw>> \o r.endpoint.layers]

\* apply_transform(mw, endpoint): mw becomes the outermost layer
Wrap(r, mw) == [r EXCEPT !.endpoint.layers = <<mw>> \o @]

\* a middleware of kind k, numbered in the order of the wrap() calls
NewMw(n, k) == [id |-> n, hdr |-> k.hdr, val |-> k.val]

wrap ==
    /\ Building
    /\ Len(asked.wraps) < MaxWraps
    /\ \E k \in MwKinds :
          LET mw == NewMw(Len(asked.wraps) + 1, k)
          IN  /\ res' = Wrap(res, mw)
              /\ asked' = [asked EXCEPT !.wraps = Append(@, mw)]
    /\ Frame

\* wrap_fn(f) is wrap(f)
wrap_fn ==
    /\ Building
    /\ Len(asked.wraps) < MaxWraps
    /\ \E k \in MwKinds :
          LET mw == NewMw(Len(asked.wraps) + 1, k)
          IN  /\ res' = Wrap(res, mw)
              /\ asked' = [asked EXCEPT !.wraps = Append(@, mw)]
    /\ Frame

\* variant: the service is boxed without map_init_err
SetDefaultUnlogged(r, f) ==
    [r EXCEPT !.default =
        Some([status |-> f.status, fails |-> f.fails, on_init_err |-> "none"])]

\* default_service(f): a fresh cell holding the boxed service, whose
\* construction error is mapped to a log::error! call
SetDefault(r, f) ==
    [r EXCEPT !.default =
        Some([status |-> f.status, fails |-> f.fails, on_init_err |-> "log"])]

default_service ==
    /\ Building
    /\ \E f \in DefaultServices :
          /\ res' = SetDefault(res, f)
          /\ asked' = [asked EXCEPT !.default = Some(f)]
    /\ Frame

\* default_service(f) with an f whose construction will fail
default_service_failing ==
    /\ Building
    /\ \E f \in FailingDefaults :
          /\ res' = SetDefault(res, f)
          /\ asked' = [asked EXCEPT !.default = Some(f)]
    /\ Frame

(* ------------------------------ register ------------------------------- *)
\* ResourceDef::new(path): the definition keeps the pattern it was given
\* and starts without a name
ResourceDef(pattern) == [pattern |-> pattern, name |-> ""]

\* the pattern of the resource definition that register() builds first
PrimaryPattern(r, cfg) ==
    IF cfg.root \/ r.rdef # << >> THEN insert_slash(r.rdef) ELSE r.rdef

PrimaryDef(r, cfg) ==
    LET rdef == ResourceDef(PrimaryPattern(r, cfg))
    IN  IF r.name # None THEN [rdef EXCEPT !.name = r.name[1]] ELSE rdef

\* the trailing-slash toggle: strip the trailing '/' or append one
Toggle(cleaned_path) ==
    IF EndsWithSlash(cleaned_path)
    THEN trim_end_matches(cleaned_path)
    ELSE cleaned_path \o <<"/">>

\* variant: the toggle applied to rdef.pattern() instead of cleaned_path
SecondaryDefUnmerged(rdef) == ResourceDef(Toggle(rdef.pattern))

\* variant: the complement made by rewriting the pattern of a copy of rdef
SecondaryDefNamed(rdef) ==
    LET cleaned_path == merge_slash(rdef.pattern)
    IN  [rdef EXCEPT !.pattern = Toggle(cleaned_path)]

\* the trailing-slash complement, computed from the slash-merged pattern
SecondaryDef(rdef) ==
    LET cleaned_path == merge_slash(rdef.pattern)
    IN  ResourceDef(Toggle(cleaned_path))

\* AppService::set_service_data: the enclosing scope's data, for the types
\* the resource did not register itself
set_service_data(cfg, ext) ==
    [t \in (DOMAIN ext) \cup (DOMAIN cfg.service_data) |->
        IF t \in DOMAIN ext THEN ext[t] ELSE cfg.service_data[t]]

\* variant: the factory is built with a fresh, empty default cell
IntoNewServiceNoDefault(r, sl, ex) ==
    LET dref == IF r.data = None THEN None ELSE Some(Len(ex) + 1)
        ex2  == IF r.data = None THEN ex ELSE Append(ex, r.data[1])
        fac  == [routes |-> r.routes, data |-> dref, default |-> None]
    IN  [ slots    |-> [sl EXCEPT ![r.factory_ref] = Some(fac)],
          exts     |-> ex2,
          endpoint |-> r.endpoint ]

\* variant: the factory is built but never stored in the slot
IntoNewServiceNoStore(r, sl, ex) ==
    LET dref == IF r.data = None THEN None ELSE Some(Len(ex) + 1)
        ex2  == IF r.data = None THEN ex ELSE Append(ex, r.data[1])
    IN  [ slots    |-> sl,
          exts     |-> ex2,
          endpoint |-> r.endpoint ]

\* variant: the bare endpoint comes back, not the front-end wrap() built
IntoNewServiceBareEndpoint(r, sl, ex) ==
    LET dref == IF r.data = None THEN None ELSE Some(Len(ex) + 1)
        ex2  == IF r.data = None THEN ex ELSE Append(ex, r.data[1])
        fac  == [routes |-> r.routes, data |-> dref, default |-> r.default]
    IN  [ slots    |-> [sl EXCEPT ![r.factory_ref] = Some(fac)],
          exts     |-> ex2,
          endpoint |-> [r.endpoint EXCEPT !.layers = << >>] ]

\* into_new_service: move routes, data (behind a new Rc) and default into a
\* ResourceFactory, store it in the slot, return the endpoint
IntoNewService(r, sl, ex) ==
    LET dref == IF r.data = None THEN None ELSE Some(Len(ex) + 1)
        ex2  == IF r.data = None THEN ex ELSE Append(ex, r.data[1])
        fac  == [routes |-> r.routes, data |-> dref, default |-> r.default]
    IN  [ slots    |-> [sl EXCEPT ![r.factory_ref] = Some(fac)],
          exts     |-> ex2,
          endpoint |-> r.endpoint ]

\* AppService::register_service: one more registry entry
Entry(rdef, guards, service) ==
    [rdef |-> rdef, guards |-> guards, service |-> service, nested |-> None]

\* variant: each register_service call gets an Rc of its own
RegisterBothCopies(reg, rdef, secondary_rdef, guards1, guards2, rs, ep) ==
    LET service_rc == Len(rs) + 1
    IN  [ rcs      |-> rs \o <<ep, ep>>,
          registry |-> reg \o << Entry(rdef, guards1, service_rc),
                                 Entry(secondary_rdef, guards2, service_rc + 1) >> ]

\* variant: the second register_service call is given no guards
RegisterBothSecondUnguarded(reg, rdef, secondary_rdef, guards1, guards2, rs, ep) ==
    LET service_rc == Len(rs) + 1
    IN  [ rcs      |-> Append(rs, ep),
          registry |-> reg \o << Entry(rdef, guards1, service_rc),
                                 Entry(secondary_rdef, None, service_rc) >> ]

\* variant: the secondary definition is registered first
RegisterBothSwapped(reg, rdef, secondary_rdef, guards1, guards2, rs, ep) ==
    LET service_rc == Len(rs) + 1
    IN  [ rcs      |-> Append(rs, ep),
          registry |-> reg \o << Entry(secondary_rdef, guards2, service_rc),
                                 Entry(rdef, guards1, service_rc) >> ]

\* the two register_service calls on one Rc of the service
RegisterBoth(reg, rdef, secondary_rdef, guards1, guards2, rs, ep) ==
    LET service_rc == Len(rs) + 1
    IN  [ rcs      |-> Append(rs, ep),
          registry |-> reg \o << Entry(rdef, guards1, service_rc),
                                 Entry(secondary_rdef, guards2, service_rc) >> ]

\* variant: an absent default is taken from the AppService, as Scope does
PreparedScopeDefault(r, cfg) ==
    LET r1 == [r EXCEPT !.guards = << >>,
                        !.default = IF @ = None THEN cfg.default ELSE @]
    IN  IF r.data # None
        THEN [r1 EXCEPT !.data = Some(set_service_data(cfg, r.data[1]))]
        ELSE r1

\* variant: the enclosing scope's data is not merged in
PreparedNoMerge(r, cfg) == [r EXCEPT !.guards = << >>]

\* the builder as register() leaves it before into_new_service: guards taken
\* out of it, the enclosing scope's data merged into its own
Prepared(r, cfg) ==
    LET r1 == [r EXCEPT !.guards = << >>]
    IN  IF r.data # None
        THEN [r1 EXCEPT !.data = Some(set_service_data(cfg, r.data[1]))]
        ELSE r1

register ==
    /\ Building
    /\ LET guards_are_empty == res.guards = << >>
           rdef   == PrimaryDef(res, config)
           self   == Prepared(res, config)
           guards == IF guards_are_empty THEN None ELSE Some(<<res.guards>>)
           secondary_rdef == SecondaryDef(rdef)
           ins    == IntoNewService(self, slots, exts)
           out    == RegisterBoth(registry, rdef, secondary_rdef, guards, guards,
                                  rcs, ins.endpoint)
       IN  /\ res' = self
           /\ slots' = ins.slots
           /\ exts' = ins.exts
           /\ rcs' = out.rcs
           /\ registry' = out.registry
    /\ phase' = "registered"
    /\ UNCHANGED <<config, services, last, asked, log>>

(* ------------------------------- runtime ------------------------------- *)
\* the default service of a compiled resource, constructed: absent when
\* none was configured or when its construction fails
BuiltDefault(fac) ==
    IF fac.default # None /\ ~fac.default[1].fails THEN fac.default ELSE None

\* what the construction of the default service logs
InitLog(fac) ==
    IF fac.default # None /\ fac.default[1].fails
                          /\ fac.default[1].on_init_err = "log"
    THEN << "Can not construct default service" >>
    ELSE << >>

\* ResourceFactory::new_service: the ResourceService of a compiled resource
NewResourceService(fac) ==
    [routes |-> fac.routes, data |-> fac.data, default |-> BuiltDefault(fac)]

\* variant: an empty slot yields a service without routes or default
EndpointNewServiceOrEmpty(ep, sl) ==
    IF sl[ep.factory] = None
    THEN Some([layers |-> ep.layers,
               inner |-> [routes |-> << >>, data |-> None, default |-> None]])
    ELSE Some([layers |-> ep.layers, inner |-> NewResourceService(sl[ep.factory][1])])

\* ResourceEndpoint::new_service under the endpoint's middleware layers;
\* None when the slot is empty (unwrap on None panics)
EndpointNewService(ep, sl) ==
    IF sl[ep.factory] = None THEN None
    ELSE Some([layers |-> ep.layers, inner |-> NewResourceService(sl[ep.factory][1])])

\* the log lines of building the services of entries i.. of the registry
RECURSIVE EndpointLog(_, _, _, _)
EndpointLog(rs, sl, reg, i) ==
    IF i > Len(reg) THEN << >>
    ELSE InitLog(sl[rs[reg[i].service].factory][1]) \o EndpointLog(rs, sl, reg, i + 1)

\* variant: new_service takes the factory out of the slot
EndpointTake(ep, sl) == [sl EXCEPT ![ep.factory] = None]

\* the slot after ResourceEndpoint::new_service: borrow_mut().as_mut() hands
\* out a reference to the stored factory and leaves it in the slot
EndpointBorrow(ep, sl) == sl

\* new_service on the endpoints of entries i.. of the registry, one after
\* the other; ok is FALSE when one of them panics
RECURSIVE BuildServices(_, _, _, _)
BuildServices(reg, rs, sl, i) ==
    IF i > Len(reg) THEN [services |-> << >>, slots |-> sl, ok |-> TRUE]
    ELSE LET ep    == rs[reg[i].service]
             built == EndpointNewService(ep, sl)
         IN  IF built = None
             THEN [services |-> << >>, slots |-> sl, ok |-> FALSE]
             ELSE LET rest == BuildServices(reg, rs, EndpointBorrow(ep, sl), i + 1)
                  IN  [services |-> <<built[1]>> \o rest.services,
                       slots |-> rest.slots, ok |-> rest.ok]

\* the application builds one service per registry entry
app_init ==
    /\ phase = "registered"
    /\ LET out == BuildServices(registry, rcs, slots, 1)
       IN  IF ~out.ok
           THEN /\ phase' = "panicked"
                /\ services' = services
                /\ slots' = out.slots
                /\ log' = log
           ELSE /\ phase' = "serving"
                /\ services' = out.services
                /\ slots' = out.slots
                /\ log' = log \o EndpointLog(rcs, slots, registry, 1)
    /\ UNCHANGED <<res, exts, rcs, config, registry, last, asked>>

NoHeaders == [h \in {} |-> ""]

Response(status, by, handler, seen) ==
    [status |-> status, by |-> by, handler |-> handler, seen |-> seen,
     data |-> NewExtensions, headers |-> NoHeaders, trace |-> << >>]

\* the first route, in list order, whose guards all accept; 0 when none does
RECURSIVE FindRoute(_, _, _)
FindRoute(routes, req, i) ==
    IF i > Len(routes) THEN 0
    ELSE IF CheckAll(routes[i].guards, req) THEN i
    ELSE FindRoute(routes, req, i + 1)

\* the data a handler can extract: the resource's container when the
\* dispatcher set one on the request, the enclosing scope's data otherwise
Visible(dref, ex) == IF dref # None THEN ex[dref[1]] ELSE config.service_data

\* a handler reading Data<Counter> adds one to it and reports what it saw
HandlerCall(rt, dref, ex) ==
    IF dref # None /\ "Counter" \in DOMAIN ex[dref[1]]
    THEN LET n == ex[dref[1]]["Counter"] + 1
             ex2 == [ex EXCEPT ![dref[1]]["Counter"] = n]
         IN  [resp |-> [Response(200, "route", rt.handler, Some(n))
                           EXCEPT !.data = Visible(dref, ex2)],
              exts |-> ex2]
    ELSE [resp |-> [Response(200, "route", rt.handler, None)
                       EXCEPT !.data = Visible(dref, ex)],
          exts |-> ex]

\* ResourceService::call
ResourceCall(svc, req, ex) ==
    LET k == FindRoute(svc.routes, req, 1)
    IN  IF k > 0 THEN HandlerCall(svc.routes[k], svc.data, ex)
        ELSE IF svc.default # None
        THEN [resp |-> Response(svc.default[1].status, "default", 0, None), exts |-> ex]
        ELSE [resp |-> Response(405, "resource", 0, None), exts |-> ex]

\* the test middleware md: call the next service, then insert the header
RECURSIVE CallLayers(_, _, _, _, _)
CallLayers(layers, i, svc, req, ex) ==
    IF i > Len(layers) THEN ResourceCall(svc, req, ex)
    ELSE LET mw    == layers[i]
             inner == CallLayers(layers, i + 1, svc, req, ex)
         IN  [ resp |-> [inner.resp EXCEPT
                           !.headers = Insert(@, mw.hdr, mw.val),
                           !.trace = <<[ev |-> "req", mw |-> mw.id]>> \o @
                                     \o <<[ev |-> "resp", mw |-> mw.id]>>],
               exts |-> inner.exts ]

\* a registry entry is eligible when its pattern matches the path and its
\* guards accept
Eligible(e, req) ==
    /\ e.rdef.pattern = req.path
    /\ e.guards # None => \A j \in 1..Len(e.guards[1]) : CheckAll(e.guards[1][j], req)

RECURSIVE Recognize(_, _, _)
Recognize(reg, req, i) ==
    IF i > Len(reg) THEN 0
    ELSE IF Eligible(reg[i], req) THEN i
    ELSE Recognize(reg, req, i + 1)

\* the application's router: the first eligible entry's service, else the
\* application's default service, else 404
AppCall(req, ex) ==
    LET i == Recognize(registry, req, 1)
    IN  IF i > 0
        THEN LET out == CallLayers(services[i].layers, 1, services[i].inner, req, ex)
             IN  [resp |-> out.resp, exts |-> out.exts, via |-> i]
        ELSE IF config.default # None
        THEN [resp |-> Response(config.default[1].status, "app", 0, None),
              exts |-> ex, via |-> 0]
        ELSE [resp |-> Response(404, "app", 0, None), exts |-> ex, via |-> 0]

OtherPath == <<"/", "x">>

RequestPaths == { registry[i].rdef.pattern : i \in 1..Len(registry) } \cup {OtherPath}

WithinHits(ex) ==
    \A i \in 1..Len(ex) : "Counter" \in DOMAIN ex[i] => ex[i]["Counter"] <= MaxHits

request ==
    /\ phase = "serving"
    /\ \E m \in Methods, p \in RequestPaths :
          LET req == [method |-> m, path |-> p]
              out == AppCall(req, exts)
          IN  /\ WithinHits(out.exts)
              /\ exts' = out.exts
              /\ last' = Some([req |-> req, resp |-> out.resp, via |-> out.via])
    /\ UNCHANGED <<res, slots, rcs, config, registry, services, phase, asked, log>>

Next ==
    \/ name \/ guard \/ route \/ to \/ to_async \/ data
    \/ wrap \/ wrap_fn \/ default_service
    \/ register \/ app_init \/ request

Spec == Init /\ [][Next]_vars

\* new_service called on the builder's own endpoint, before register():
\* a panic when the slot is empty, a service otherwise
new_service ==
    /\ Building
    /\ LET built == EndpointNewService(res.endpoint, slots)
       IN  IF built = None
           THEN /\ phase' = "panicked"
                /\ services' = services
                /\ slots' = slots
           ELSE /\ phase' = "built_early"
                /\ services' = <<built[1]>>
                /\ slots' = EndpointBorrow(res.endpoint, slots)
    /\ UNCHANGED <<res, exts, rcs, config, registry, last, asked, log>>

NextEndpoint == Next \/ new_service

\* the builder calls made on a builder that wrap() returned
late_to == asked.wraps # << >> /\ to

late_data == asked.wraps # << >> /\ data

late_default_service == asked.wraps # << >> /\ default_service

NextLate ==
    \/ route \/ wrap \/ late_to \/ late_data \/ late_default_service
    \/ register \/ app_init \/ request

SpecLate == Init /\ [][NextLate]_vars

\* a resource under an application that registers data of its own
AppData == [t \in {"Limit", "Zone"} |-> "app"]

InitData ==
    /\ \E path \in TestPaths : res = New(path)
    /\ slots = NewSlots
    /\ exts = << >>
    /\ rcs = << >>
    /\ config = [NewConfig(TRUE, None) EXCEPT !.service_data = AppData]
    /\ registry = << >>
    /\ services = << >>
    /\ phase = "building"
    /\ last = None
    /\ asked = NothingAsked
    /\ log = << >>

NextData ==
    \/ route \/ to \/ data \/ data_limit \/ wrap
    \/ register \/ app_init \/ request

SpecData == InitData /\ [][NextData]_vars

\* the builder with default services whose construction fails
NextDefault == Next \/ default_service_failing

SpecDefault == Init /\ [][NextDefault]_vars

SpecEndpoint == Init /\ [][NextEndpoint]_vars

\* the normalizer on every pattern up to MaxLen, under a root and a
\* non-root configuration
InitNorm == InitWith(Patterns, BOOLEAN)

NextNorm == to \/ data \/ register \/ app_init \/ request

SpecNorm == InitNorm /\ [][NextNorm]_vars

(* ------------------------------- claims -------------------------------- *)
\* the last request reached the resource through a registry entry
Dispatched == last # None /\ last[1].via > 0

\* positions, in the order of the route()/to()/to_async() calls, of the
\* routes whose guards all accept the request
Accepting(req) ==
    { i \in 1..Len(asked.routes) : CheckAll(asked.routes[i].guards, req) }

Least(S) == CHOOSE i \in S : \A j \in S : i <= j

\* C1: a request matched to the resource is handled by the first route, in
\* the order the routes were added, whose guards all accept it; no other
\* route's handler is invoked
C1_FirstAcceptingRoute ==
    Dispatched =>
        LET req == last[1].req
            resp == last[1].resp
        IN  /\ Accepting(req) # {} =>
                /\ resp.by = "route"
                /\ resp.handler = asked.routes[Least(Accepting(req))].handler
            /\ resp.by = "route" =>
                \E i \in Accepting(req) : resp.handler = asked.routes[i].handler

C1_Witness ==
    /\ Dispatched
    /\ Len(asked.routes) = 2
    /\ Accepting(last[1].req) = {1, 2}
    /\ last[1].resp.handler = asked.routes[1].handler

\* C2: no route accepts and default_service() was never called: the
\* response is 405 and no handler ran
C2_MethodNotAllowed ==
    (Dispatched /\ Accepting(last[1].req) = {} /\ asked.default = None) =>
        /\ last[1].resp.status = 405
        /\ last[1].resp.by = "resource"
        /\ last[1].resp.handler = 0

C2_Witness ==
    /\ Dispatched
    /\ Len(asked.routes) = 2
    /\ Accepting(last[1].req) = {}
    /\ asked.default = None
    /\ last[1].resp.status = 405

\* default_service(f) was called with an f that constructs
DefaultConfigured == asked.default # None /\ ~asked.default[1].fails

\* C3: no route accepts and default_service(f) was called: f answers, not
\* 405; a request some route accepts is answered by a route, never by f
C3_DefaultService ==
    (Dispatched /\ DefaultConfigured) =>
        IF Accepting(last[1].req) = {}
        THEN /\ last[1].resp.by = "default"
             /\ last[1].resp.status = asked.default[1].status
             /\ last[1].resp.status # 405
        ELSE last[1].resp.by = "route"

C3_Witness ==
    /\ Dispatched
    /\ DefaultConfigured
    /\ asked.routes # << >>
    /\ Accepting(last[1].req) = {}
    /\ last[1].resp.by = "default"
    /\ last[1].resp.status = 400

\* C4: the application's default service never answers for the resource: a
\* request whose path matches the resource, which no route accepts, gets 405
\* when the resource has no default of its own, also when the application
\* has one
C4_NoAppDefault ==
    Dispatched =>
        /\ last[1].resp.by # "app"
        /\ (config.default # None /\ asked.default = None
              /\ Accepting(last[1].req) = {}) =>
             (last[1].resp.status = 405 /\ last[1].resp.by = "resource")

C4_Witness ==
    /\ Dispatched
    /\ config.default # None
    /\ asked.default = None
    /\ asked.routes # << >>
    /\ Accepting(last[1].req) = {}
    /\ last[1].resp.status = 405

\* every maximal run of '/' replaced by a single '/': a '/' is dropped when
\* the character before it is a '/'
RECURSIVE CollapseFrom(_, _)
CollapseFrom(s, i) ==
    IF i > Len(s) THEN << >>
    ELSE (IF s[i] = "/" /\ i > 1 /\ s[i - 1] = "/" THEN << >> ELSE <<s[i]>>)
         \o CollapseFrom(s, i + 1)

Collapse(s) == CollapseFrom(s, 1)

Registered == phase # "building"

\* the pattern P of the resource definition that register() was given
Pattern == PrimaryPattern(res, config)

\* C5: for a pattern P that does not end in '/', register() creates exactly
\* two registry entries, with the patterns collapse(P) and collapse(P) + "/"
C5_TwoCollapsedEntries ==
    (Registered /\ ~EndsWithSlash(Pattern)) =>
        /\ Len(registry) = 2
        /\ registry[1].rdef.pattern = Collapse(Pattern)
        /\ registry[2].rdef.pattern = Collapse(Pattern) \o <<"/">>

\* C6: for a pattern P whose collapsed form ends in '/', the secondary
\* pattern is the collapsed P without its last '/'; for "/" it is empty
C6_SecondaryStripsOneSlash ==
    Registered =>
        LET c == Collapse(Pattern)
        IN  /\ EndsWithSlash(c) =>
                registry[2].rdef.pattern = SubSeq(c, 1, Len(c) - 1)
            /\ Pattern = <<"/">> => registry[2].rdef.pattern = << >>

C6_Witness ==
    /\ Registered
    /\ EndsWithSlash(Collapse(Pattern))
    /\ Collapse(Pattern) # Pattern
    /\ Len(Collapse(Pattern)) > 1
    /\ registry[2].rdef.pattern \o <<"/">> = Collapse(Pattern)

\* C7: toggling the trailing slash of the registered secondary pattern gives
\* back the collapsed primary pattern, normalizing the secondary definition
\* again does too, and collapsing a collapsed pattern changes nothing
C7_RoundTrip ==
    Registered =>
        LET c == merge_slash(registry[1].rdef.pattern)
            t == registry[2].rdef.pattern
        IN  /\ Toggle(t) = c
            /\ SecondaryDef(registry[2].rdef).pattern = c
            /\ merge_slash(c) = c
            /\ merge_slash(t) = t
            /\ c = Collapse(registry[1].rdef.pattern)

C7_Witness ==
    /\ Registered
    /\ merge_slash(registry[1].rdef.pattern) # registry[1].rdef.pattern
    /\ EndsWithSlash(registry[1].rdef.pattern)
    /\ Len(registry[2].rdef.pattern) > 0
    /\ Toggle(registry[2].rdef.pattern) = merge_slash(registry[1].rdef.pattern)

\* the Counter that a handler reached through registry entry i reads
CounterVia(i) == exts[services[i].inner.data[1]]["Counter"]

\* C8: one compiled dispatcher: both registry entries hold the same Rc, the
\* services built from them have the same routes, data and default, and a
\* Counter changed by a request through one pattern reads the same through
\* the other
C8_SharedDispatcher ==
    Registered =>
        /\ Len(registry) = 2
        /\ registry[1].service = registry[2].service
        /\ Len(rcs) = 1
        /\ Len(slots) = 1
        /\ Len(exts) <= 1
        /\ phase = "serving" =>
             /\ services[1] = services[2]
             /\ (Dispatched /\ last[1].resp.seen # None) =>
                  /\ CounterVia(1) = last[1].resp.seen[1]
                  /\ CounterVia(2) = last[1].resp.seen[1]

C8_Witness ==
    /\ phase = "serving"
    /\ Dispatched
    /\ last[1].via = 2
    /\ last[1].resp.seen = Some(2)
    /\ CounterVia(1) = 2

\* C9: every response of a wrapped resource, from a route or from the
\* default service, carries the header of each of its middlewares
C9_HeaderOnEveryResponse ==
    Dispatched =>
        \A i \in 1..Len(asked.wraps) :
            LET mw == asked.wraps[i]
                h == last[1].resp.headers
            IN  /\ mw.hdr \in DOMAIN h
                /\ (\A j \in (i + 1)..Len(asked.wraps) : asked.wraps[j].hdr # mw.hdr)
                     => h[mw.hdr] = mw.val

C9_Witness ==
    /\ Dispatched
    /\ asked.wraps # << >>
    /\ last[1].resp.by = "default"
    /\ last[1].resp.headers = [h \in {"content-type"} |-> "0001"]

\* the middleware events of a request under wraps w: requests from the last
\* wrapped to the first, then responses from the first to the last
ReverseOrderTrace(w) ==
    [k \in 1..(2 * Len(w)) |->
        IF k <= Len(w) THEN [ev |-> "req", mw |-> w[Len(w) + 1 - k].id]
        ELSE [ev |-> "resp", mw |-> w[k - Len(w)].id]]

\* C10: middlewares run in the opposite order of the wrap() calls: the last
\* wrapped sees the request first and the response last, the first wrapped
\* is directly around the dispatcher
C10_ReverseOrder ==
    Dispatched =>
        /\ Len(last[1].resp.trace) = 2 * Len(asked.wraps)
        /\ last[1].resp.trace = ReverseOrderTrace(asked.wraps)

C10_Witness ==
    /\ Dispatched
    /\ Len(asked.wraps) = 2
    /\ last[1].resp.trace[1] = [ev |-> "req", mw |-> 2]
    /\ last[1].resp.trace[2] = [ev |-> "req", mw |-> 1]
    /\ last[1].resp.trace[3] = [ev |-> "resp", mw |-> 1]
    /\ last[1].resp.trace[4] = [ev |-> "resp", mw |-> 2]

\* the deferred factory slot of the builder is empty
SlotEmpty == slots[res.factory_ref] = None

\* C11: the deferred factory slot is empty from new() through every builder
\* call, is written once, by register()'s into_new_service, and is filled
\* whenever the registry holds the service, so that no service is built and
\* no request dispatched while it is empty
C11_SlotWrittenOnce ==
    /\ [](/\ Building => (SlotEmpty /\ registry = << >>)
          /\ registry # << >> => ~SlotEmpty
          /\ (phase = "serving" \/ Dispatched) => ~SlotEmpty
          /\ phase # "panicked")
    /\ [][slots' # slots =>
            /\ SlotEmpty
            /\ ~SlotEmpty'
            /\ Building /\ phase' = "registered"
            /\ registry = << >> /\ registry' # << >>]_vars

C11_Witness ==
    /\ Dispatched
    /\ ~SlotEmpty
    /\ asked.wraps # << >>
    /\ asked.routes # << >>
    /\ asked.default # None
    /\ res.name # None

\* C12: new_service on the front-end while the slot is empty panics: no
\* service comes out of an empty slot, and after the panic there is no
\* service and no response, neither from a default nor a 405
C12_EmptySlotPanics ==
    /\ services # << >> => ~SlotEmpty
    /\ phase # "built_early"
    /\ phase = "panicked" =>
         /\ SlotEmpty
         /\ services = << >>
         /\ registry = << >>
         /\ last = None

C12_Witness ==
    /\ phase = "panicked"
    /\ SlotEmpty
    /\ asked.wraps # << >>
    /\ asked.routes # << >>
    /\ asked.default # None

\* default_service(f) was called with an f whose construction fails
DefaultFails == asked.default # None /\ asked.default[1].fails

\* C13: when the construction of the default service fails, the failure is
\* logged, the resource comes up without a default, routes serve as usual
\* and a request no route accepts gets 405
C13_FailedDefaultIsAbsent ==
    /\ ~DefaultFails => log = << >>
    /\ DefaultFails =>
         /\ phase # "panicked"
         /\ phase = "serving" =>
              /\ log # << >>
              /\ \A i \in 1..Len(services) :
                    /\ services[i].inner.default = None
                    /\ services[i].inner.routes = asked.routes
              /\ Dispatched =>
                   IF Accepting(last[1].req) = {}
                   THEN /\ last[1].resp.status = 405
                        /\ last[1].resp.by = "resource"
                        /\ last[1].resp.handler = 0
                   ELSE /\ last[1].resp.by = "route"
                        /\ last[1].resp.status = 200
                        /\ last[1].resp.handler
                             = asked.routes[Least(Accepting(last[1].req))].handler

C13_Witness ==
    /\ DefaultFails
    /\ Dispatched
    /\ asked.routes # << >>
    /\ Accepting(last[1].req) = {}
    /\ last[1].resp.status = 405
    /\ log # << >>

\* C14: every route handler sees the data registered with data(v); for a
\* type the enclosing scope registers too it sees the resource's value; the
\* enclosing scope's data of the other types stays visible
C14_ScopedData ==
    (Dispatched /\ last[1].resp.by = "route") =>
        LET d == last[1].resp.data
        IN  /\ \A t \in DOMAIN asked.data :
                  /\ t \in DOMAIN d
                  /\ t # "Counter" => d[t] = asked.data[t]
                  /\ t = "Counter" => Some(d[t]) = last[1].resp.seen
            /\ \A t \in (DOMAIN config.service_data) \ (DOMAIN asked.data) :
                  /\ t \in DOMAIN d
                  /\ d[t] = config.service_data[t]

C14_Witness ==
    /\ Dispatched
    /\ last[1].resp.by = "route"
    /\ last[1].resp.handler = 2
    /\ DOMAIN asked.data = {"Counter", "Limit"}
    /\ last[1].resp.data["Limit"] = "resource"
    /\ last[1].resp.data["Zone"] = "app"
    /\ last[1].resp.data["Counter"] = 2

\* a request for the pattern of the i-th registry entry
RequestFor(i, m) == [method |-> m, path |-> registry[i].rdef.pattern]

\* every guard given to guard() accepts the request
ResourceGuardsAccept(req) ==
    \A j \in 1..Len(asked.guards) : Check(asked.guards[j], req)

\* C15: both registry entries carry the resource's guards: a request is
\* eligible under the primary pattern exactly when the same request is under
\* the secondary one, a request that a resource guard rejects reaches
\* neither, and without resource guards both entries have no guards at all
C15_GuardsOnBothEntries ==
    Registered =>
        /\ Len(registry) = 2
        /\ registry[1].guards = registry[2].guards
        /\ asked.guards = << >> =>
              registry[1].guards = None /\ registry[2].guards = None
        /\ asked.guards # << >> =>
              registry[1].guards # None /\ registry[2].guards # None
        /\ \A m \in Methods :
              /\ Eligible(registry[1], RequestFor(1, m))
                    <=> Eligible(registry[2], RequestFor(2, m))
              /\ Eligible(registry[1], RequestFor(1, m))
                    <=> ResourceGuardsAccept(RequestFor(1, m))
        /\ (last # None /\ ~ResourceGuardsAccept(last[1].req)) =>
              last[1].via = 0 /\ last[1].resp.by = "app"

C15_Witness ==
    /\ last # None
    /\ asked.guards # << >>
    /\ last[1].req.path = registry[2].rdef.pattern
    /\ ~ResourceGuardsAccept(last[1].req)
    /\ last[1].via = 0
    /\ exts # << >>
    /\ \E i \in 1..Len(exts) : exts[i]["Counter"] > 0

\* C18: register() calls the registry twice, with the primary definition
\* first and the trailing-slash complement second, and the registry gets no
\* other entry before or after
C18_PrimaryThenSecondary ==
    /\ [](~Registered => registry = << >>)
    /\ [](Registered =>
            /\ Len(registry) = 2
            /\ registry[1].rdef.pattern = Pattern
            /\ registry[2].rdef.pattern = Toggle(merge_slash(Pattern))
            /\ registry[1].rdef.pattern # registry[2].rdef.pattern)
    /\ [][registry' # registry => (~Registered /\ Registered')]_vars

C18_Witness ==
    /\ phase = "serving"
    /\ last # None
    /\ Len(registry) = 2
    /\ Pattern = <<"/", "/", "a", "/">>
    /\ registry[1].rdef.pattern = <<"/", "/", "a", "/">>
    /\ registry[2].rdef.pattern = <<"/", "a">>

\* C20: a name given with name() is on the primary registry entry only; the
\* secondary entry has no name, so no two entries share a name
C20_NameOnPrimaryOnly ==
    (Registered /\ asked.name # None) =>
        /\ Len(registry) = 2
        /\ registry[1].rdef.name = asked.name[1]
        /\ registry[2].rdef.name = ""
        /\ \A i, j \in 1..Len(registry) :
              (i # j /\ registry[i].rdef.name # "") =>
                  registry[i].rdef.name # registry[j].rdef.name

C20_Witness ==
    /\ Registered
    /\ asked.name = Some("test")
    /\ registry[1].rdef.name = "test"
    /\ registry[2].rdef.name = ""
    /\ asked.wraps # << >>
    /\ asked.guards # << >>

\* what routing decides for a request, without what the handler read
Routing(resp) ==
    [status |-> resp.status, by |-> resp.by, handler |-> resp.handler,
     headers |-> resp.headers, trace |-> resp.trace]

\* the response to a request as the compiled configuration gives it: the
\* registry, the front-end and the factory in the slot
CompiledCall(req) ==
    LET i == Recognize(registry, req, 1)
    IN  IF i = 0
        THEN IF config.default # None
             THEN Response(config.default[1].status, "app", 0, None)
             ELSE Response(404, "app", 0, None)
        ELSE LET ep  == rcs[registry[i].service]
                 fac == slots[ep.factory][1]
             IN  CallLayers(ep.layers, 1, NewResourceService(fac), req, exts).resp

\* the types of the data containers, and every value but the Counter that
\* handlers change through Data<T>
SameContainers(ex1, ex2) ==
    /\ Len(ex1) = Len(ex2)
    /\ \A i \in 1..Len(ex1) :
          /\ DOMAIN ex1[i] = DOMAIN ex2[i]
          /\ \A t \in DOMAIN ex1[i] : t # "Counter" => ex1[i][t] = ex2[i][t]

C19_WrapChangesFrontEndOnly ==
    [][asked'.wraps # asked.wraps =>
         /\ res'.rdef = res.rdef
         /\ res'.name = res.name
         /\ res'.guards = res.guards
         /\ res'.routes = res.routes
         /\ res'.data = res.data
         /\ res'.default = res.default
         /\ res'.factory_ref = res.factory_ref
         /\ res'.endpoint.factory = res.endpoint.factory
         /\ slots' = slots
         /\ Len(res'.endpoint.layers) = Len(res.endpoint.layers) + 1
         /\ \A i \in 1..Len(res.endpoint.layers) :
               res'.endpoint.layers[i + 1] = res.endpoint.layers[i]]_vars

C19_Witness ==
    /\ Building
    /\ Len(res.endpoint.layers) = 2
    /\ Len(asked.wraps) = 2
    /\ res.name = Some("test")
    /\ res.guards # << >>
    /\ Len(res.routes) = 2
    /\ res.data # None
    /\ res.default # None
    /\ res.factory_ref = 1

\* C16: what is added to the builder after a wrap() call is served through
\* the middleware like what was added before: the services hold the whole
\* route list in the order of the calls, the data and the default service,
\* and every response, from a route or from the default, passed every
\* middleware
C16_AddedAfterWrap ==
    /\ phase # "panicked"
    /\ phase = "serving" =>
          \A i \in 1..Len(services) :
              /\ services[i].inner.routes = asked.routes
              /\ Len(services[i].layers) = Len(asked.wraps)
              /\ asked.default # None =>
                    /\ services[i].inner.default # None
                    /\ services[i].inner.default[1].status = asked.default[1].status
              /\ DOMAIN asked.data # {} =>
                    /\ services[i].inner.data # None
                    /\ DOMAIN exts[services[i].inner.data[1]] = DOMAIN asked.data
    /\ Dispatched =>
          /\ last[1].resp.trace = ReverseOrderTrace(asked.wraps)
          /\ \A i \in 1..Len(asked.wraps) :
                asked.wraps[i].hdr \in DOMAIN last[1].resp.headers
          /\ IF Accepting(last[1].req) # {}
             THEN /\ last[1].resp.by = "route"
                  /\ last[1].resp.handler =
                        asked.routes[Least(Accepting(last[1].req))].handler
                  /\ DOMAIN asked.data # {} => last[1].resp.seen # None
             ELSE IF asked.default # None
             THEN /\ last[1].resp.by = "default"
                  /\ last[1].resp.status = asked.default[1].status
             ELSE last[1].resp.status = 405

C16_Witness ==
    /\ Dispatched
    /\ Len(asked.wraps) = 1
    /\ Len(asked.routes) = 2
    /\ asked.routes[1].guards # << >>
    /\ asked.routes[2].guards = << >>
    /\ last[1].resp.by = "route"
    /\ last[1].resp.handler = 2
    /\ last[1].resp.seen # None
    /\ last[1].resp.trace = <<[ev |-> "req", mw |-> 1], [ev |-> "resp", mw |-> 1]>>
    /\ asked.default # None

====
